---- MODULE Spec2Model ----
(***************************************************************************)
(* Model of the TTP constructive method (ttpgen): Florian's circular       *)
(* construction of a double round-robin schedule, the constraint checker   *)
(* and the travel-distance objective of src/ttpgen/src/solution.rs.        *)
(*                                                                         *)
(* Rust vectors are modelled as functions over 0..len-1, so that every     *)
(* index expression of the source keeps its value.                         *)
(***************************************************************************)
EXTENDS Integers, Sequences, FiniteSets, TLC

\* ------------------------------------------------------------------------
\* Bounds of the model
\* ------------------------------------------------------------------------
\* largest number of teams of an instance handed to the constructor
MaxTeams == 5
\* how far the declared slot count of an instance may differ from 2*(N-1)
SlotSlack == 1

\* ------------------------------------------------------------------------
\* Vec<T> as a function over 0..len-1
\* ------------------------------------------------------------------------
EmptyVec == [i \in {} |-> 0]

VecLen(v) == Cardinality(DOMAIN v)

\* Vec::push
VecPush(v, x) == [i \in 0..VecLen(v) |-> IF i < VecLen(v) THEN v[i] ELSE x]

\* Vec::remove(index), for index < len: shifts the tail to the left
VecRemove(v, index) ==
    [i \in 0..(VecLen(v) - 2) |-> IF i < index THEN v[i] ELSE v[i + 1]]

\* a rotation by one to the left
VecRotateRight1_left(v) ==
    [i \in 0..(VecLen(v) - 1) |-> v[(i + 1) % VecLen(v)]]

\* slice::rotate_right(1), for len >= 1
VecRotateRight1(v) ==
    [i \in 0..(VecLen(v) - 1) |-> v[(i + VecLen(v) - 1) % VecLen(v)]]

\* vec![x; n]
VecFill(x, n) == [i \in 0..(n - 1) |-> x]

\* all orderings of the identifiers 0..n-1
Orderings(n) ==
    {p \in [0..(n - 1) -> 0..(n - 1)] : \A i, j \in 0..(n - 1) : p[i] = p[j] => i = j}

\* ------------------------------------------------------------------------
\* Game and Solution
\* ------------------------------------------------------------------------
\* a Game whose home flag is never set
Game_awayOnly(home, opp) == [home_game |-> FALSE, opponent |-> opp]

Game(home, opp) == [home_game |-> home, opponent |-> opp]

\* the placeholder written by Solution::new
DefaultGame == Game(FALSE, -1)

\* Solution::new(data): a slots x teams matrix of placeholders, id -1
SolutionNew(numTeams, numSlots) ==
    [id |-> -1, solution |-> VecFill(VecFill(DefaultGame, numTeams), numSlots)]

\* HomeFirst that ignores the parity of the round
HomeFirst_noParity(r, up) == up

\* home_first of round `r`
HomeFirst(r, up) == ((r % 2 = 0) = up)

\* PairGames with the flag of team_b copied from team_a when team_a is home
PairGames_sameFlag(tms, n, r, up, i) ==
    LET team_a == tms[i]
        team_b == tms[n - 1 - i]
    IN  IF HomeFirst(r, up)
        THEN (team_a :> Game(TRUE, team_b)) @@ (team_b :> Game(TRUE, team_a))
        ELSE (team_a :> Game(FALSE, team_b)) @@ (team_b :> Game(TRUE, team_a))

\* the two Games written for pair i of a round
PairGames(tms, n, r, up, i) ==
    LET team_a == tms[i]
        team_b == tms[n - 1 - i]
    IN  IF HomeFirst(r, up)
        THEN (team_a :> Game(TRUE, team_b)) @@ (team_b :> Game(FALSE, team_a))
        ELSE (team_a :> Game(FALSE, team_b)) @@ (team_b :> Game(TRUE, team_a))

\* the row of a round after the inner loop over i in 0..n/2 has run:
\* later pairs overwrite earlier ones, cells of no pair keep their value
RECURSIVE WriteRound(_, _, _, _, _, _)
WriteRound(row, tms, n, r, up, i) ==
    IF i >= n \div 2
    THEN row
    ELSE LET g == PairGames(tms, n, r, up, i)
         IN  WriteRound([t \in DOMAIN row |-> IF t \in DOMAIN g THEN g[t] ELSE row[t]],
                        tms, n, r, up, i + 1)

\* Rotate without taking the anchor out: the whole list is rotated
Rotate_whole(tms) == VecRotateRight1(tms)

\* end of a round: remove the last element, rotate the rest right, re-append
Rotate(tms) ==
    LET last == tms[VecLen(tms) - 1]
        rest == VecRemove(tms, VecLen(tms) - 1)
    IN  VecPush(VecRotateRight1(rest), last)

\* ------------------------------------------------------------------------
\* State
\* ------------------------------------------------------------------------
VARIABLES
    data,             \* the instance (Rawdata): teams, slots, constraints, distances
    fixed_team,       \* anchor index handed to the constructor
    upward,           \* direction flag handed to the constructor
    teams,            \* the working list of generate_florian_solution
    round,            \* the round the construction loop is about to run
    solution_matrix,  \* the Solution under construction / loaded / evaluated
    pc,               \* position of the program
    result,           \* value returned by evaluate_solution
    \* generate_random_permutations
    number_permutations,  \* requested count (i32)
    seed,             \* seed handed to the sampler
    rng,              \* the StdRng of the running sampler
    stream,           \* what StdRng yields: the shuffles drawn so far, by seed and position
    permutations,     \* the HashSet of the sampler loop
    runs,             \* the values returned by the completed runs of the sampler
    \* generate_all_solutions
    permutation,      \* the orderings handed to the driver
    save,             \* the caller's save flag
    perm_index,       \* position of `for team in permutation`
    id_solution,      \* last identifier given out
    solutions,        \* Vec<Solution> collected so far
    all_distances,    \* Vec<i128> collected so far
    stored,           \* the calls of save_to_file, in order, with their outcome
    directory,        \* the directory of the schedule files (not the one of the
                      \* permutations): is it there, and its files
    progress          \* number of progress.inc() calls

sampler_vars == <<number_permutations, seed, rng, stream, permutations, runs>>

driver_vars == <<permutation, perm_index, id_solution, solutions, all_distances, progress>>

sink_vars == <<save, stored, directory>>

vars == <<data, fixed_team, upward, teams, round, solution_matrix, pc, result,
          sampler_vars, driver_vars, sink_vars>>

\* no StdRng constructed yet
NoRng == [seed |-> -1, pos |-> -1]

\* the state of the sampler, the driver and the sink before they are called
SamplerIdle ==
    /\ number_permutations = 0
    /\ seed = 0
    /\ rng = NoRng
    /\ stream = <<>>
    /\ permutations = {}
    /\ runs = EmptyVec

DriverIdle ==
    /\ permutation = EmptyVec
    /\ perm_index = 0
    /\ id_solution = 0
    /\ solutions = EmptyVec
    /\ all_distances = EmptyVec
    /\ progress = 0

\* a directory that is there and holds no file, and one that is missing
EmptyDirectory == [exists |-> TRUE, files |-> {}]
NoDirectory == [exists |-> FALSE, files |-> {}]

SinkIdle ==
    /\ save = FALSE
    /\ stored = <<>>
    /\ directory = EmptyDirectory

NumTeams == VecLen(data.teams)
NumRounds == 2 * (NumTeams - 1)

NoResult == [status |-> "none"]

\* ------------------------------------------------------------------------
\* Integer widths
\* ------------------------------------------------------------------------
I32Max == 2147483647
I32Min == -I32Max - 1

\* `a as usize < b as usize` for i32 values a, b: the cast sign-extends, so a
\* negative value becomes larger than every non-negative one
UsizeLt(a, b) == IF (a < 0) = (b < 0) THEN a < b ELSE b < 0

\* TRUE when the i32 addition a + b leaves the range of i32
I32Overflows(a, b) ==
    \/ b > 0 /\ a > I32Max - b
    \/ b < 0 /\ a < I32Min - b

\* two's complement result of the i32 addition a + b
I32WrappingAdd(a, b) ==
    IF b > 0 /\ a > I32Max - b THEN ((a - I32Max) + (b - I32Max)) - 2
    ELSE IF b < 0 /\ a < I32Min - b THEN ((a - I32Min) + (b - I32Min))
    ELSE a + b

\* sum of F(0) .. F(n-1), accumulated in loop order
SumOver(n, F(_)) ==
    LET acc[i \in 0..n] == IF i = 0 THEN 0 ELSE acc[i - 1] + F(i - 1)
    IN  acc[n]

\* a sequence (1-based list of the instance) read at a 0-based loop index
At(list, i) == list[i + 1]

\* ------------------------------------------------------------------------
\* Distance Matrix Builder
\* ------------------------------------------------------------------------
\* the write of some triple indexes outside the matrix (`as usize` of a
\* negative identifier is larger than every length)
MatrixPanics(d) ==
    \E k \in 1..Len(d.distances) :
        \/ d.distances[k].team1 \notin 0..(VecLen(d.teams) - 1)
        \/ d.distances[k].team2 \notin 0..(VecLen(d.teams) - 1)

\* generate_traveling_distance_matrix that also writes the mirrored cell
generate_traveling_distance_matrix_mirrored(d) ==
    LET n == VecLen(d.teams)
        m[k \in 0..Len(d.distances)] ==
            IF k = 0
            THEN VecFill(VecFill(0, n), n)
            ELSE LET t == d.distances[k]
                     w == [m[k - 1] EXCEPT ![t.team1][t.team2] = t.dist]
                 IN  [w EXCEPT ![t.team2][t.team1] = t.dist]
    IN  m[Len(d.distances)]

\* generate_traveling_distance_matrix: zero matrix, then one write per triple
generate_traveling_distance_matrix(d) ==
    LET n == VecLen(d.teams)
        m[k \in 0..Len(d.distances)] ==
            IF k = 0
            THEN VecFill(VecFill(0, n), n)
            ELSE LET t == d.distances[k]
                 IN  [m[k - 1] EXCEPT ![t.team1][t.team2] = t.dist]
    IN  m[Len(d.distances)]

\* ------------------------------------------------------------------------
\* Constraint Checker
\* ------------------------------------------------------------------------
\* the filter closure of the capacity loop: does this game count for the mode
CapacityMatches(c_mode1, game) ==
    CASE c_mode1 = "A" -> game.home_game
      [] c_mode1 = "H" -> ~game.home_game
      [] OTHER -> FALSE

\* count of the window [start_slot, start_slot + c_intp)
WindowCount(sol, c, team, start_slot) ==
    Cardinality({s \in start_slot..(start_slot + c.c_intp - 1) :
                    CapacityMatches(c.c_mode1, sol[s][team])})

\* the range 0..=num_slots - c_intp as usize cannot be formed (the subtraction
\* underflows) or the slice of the first window does not fit
CapacityPanics(c, num_slots) == c.c_intp < 0 \/ c.c_intp > num_slots

\* capacity loop of one constraint: one increment per offending window
CapacityViolations(sol, c, num_slots, num_teams) ==
    SumOver(num_teams, LAMBDA team :
        SumOver(num_slots - c.c_intp + 1, LAMBDA start_slot :
            LET count == WindowCount(sol, c, team, start_slot)
            IN  IF UsizeLt(count, c.c_min) \/ UsizeLt(c.c_max, count) THEN 1 ELSE 0))

\* Option<usize>::None of last_slot_vs
None == -1

\* separation loop of one constraint and one team; bad = an index of
\* last_slot_vs out of range
SeparationTeam(sol, c, team, num_slots, num_teams) ==
    LET st[k \in 0..num_slots] ==
            IF k = 0
            THEN [last_slot_vs |-> VecFill(None, num_teams), count |-> 0, bad |-> FALSE]
            ELSE LET prev == st[k - 1]
                     slot == k - 1
                     opponent == sol[slot][team].opponent
                 IN  IF prev.bad \/ opponent \notin 0..(num_teams - 1)
                     THEN [prev EXCEPT !.bad = TRUE]
                     ELSE LET last == prev.last_slot_vs[opponent]
                              distance == slot - last
                              hit == /\ last # None
                                     /\ \/ ~UsizeLt(c.c_min, distance)
                                        \/ UsizeLt(c.c_max, distance)
                          IN  [last_slot_vs |-> [prev.last_slot_vs EXCEPT ![opponent] = slot],
                               count |-> prev.count + (IF hit THEN 1 ELSE 0),
                               bad |-> FALSE]
    IN  st[num_slots]

\* MatchKey that keeps the pair in the order (home_team, away_team)
MatchKey_asRead(sol, slot, home_team) == <<home_team, sol[slot][home_team].opponent>>

\* key of match_count for one cell: the pair ordered by the usize comparison
MatchKey(sol, slot, home_team) ==
    LET away_team == sol[slot][home_team].opponent
    IN  IF UsizeLt(home_team, away_team)
        THEN <<home_team, away_team>>
        ELSE <<away_team, home_team>>

\* MatchCount incremented only from the home side of a meeting
MatchCount_homeSide(sol, key, num_slots, num_teams) ==
    Cardinality({c \in (0..(num_slots - 1)) \X (0..(num_teams - 1)) :
                    MatchKey(sol, c[1], c[2]) = key /\ sol[c[1]][c[2]].home_game})

\* value of match_count[key] after the counting loop
MatchCount(sol, key, num_slots, num_teams) ==
    Cardinality({c \in (0..(num_slots - 1)) \X (0..(num_teams - 1)) :
                    MatchKey(sol, c[1], c[2]) = key})

\* the keys of match_count after the counting loop
MatchKeys(sol, num_slots, num_teams) ==
    {MatchKey(sol, c[1], c[2]) : c \in (0..(num_slots - 1)) \X (0..(num_teams - 1))}

\* the threshold of the round-robin loop
RoundRobinLimit == 4

\* RoundRobinRespect with `>=` in place of `>`
RoundRobinRespect_ge(sol, num_slots, num_teams) ==
    \A key \in MatchKeys(sol, num_slots, num_teams) :
        ~(MatchCount(sol, key, num_slots, num_teams) >= RoundRobinLimit)

\* round_robin_respect after the loop over match_count
RoundRobinRespect(sol, num_slots, num_teams) ==
    \A key \in MatchKeys(sol, num_slots, num_teams) :
        ~(MatchCount(sol, key, num_slots, num_teams) > RoundRobinLimit)

Panic == [status |-> "panic"]

\* check_constraints(data, solution_matrix)
check_constraints(d, s) ==
    LET sol == s.solution
        num_slots == VecLen(sol)
    IN  IF num_slots = 0
        THEN Panic
        ELSE LET num_teams == VecLen(sol[0])
                 caps == d.capacity_constraints
                 seps == d.separation_constraints
             IN  IF \/ num_teams > 0 /\ \E k \in 1..Len(caps) : CapacityPanics(caps[k], num_slots)
                    \/ \E k \in 1..Len(seps) : \E team \in 0..(num_teams - 1) :
                           SeparationTeam(sol, seps[k], team, num_slots, num_teams).bad
                 THEN Panic
                 ELSE [status |-> "ok",
                       capacity_constraints |->
                           SumOver(Len(caps), LAMBDA k :
                               CapacityViolations(sol, At(caps, k), num_slots, num_teams)),
                       separation_constraints |->
                           SumOver(Len(seps), LAMBDA k :
                               SumOver(num_teams, LAMBDA team :
                                   SeparationTeam(sol, At(seps, k), team,
                                                  num_slots, num_teams).count)),
                       round_robin_respect |-> RoundRobinRespect(sol, num_slots, num_teams)]

\* ------------------------------------------------------------------------
\* Objective Evaluator
\* ------------------------------------------------------------------------
\* evaluate_objective that charges every away game from the home venue
evaluate_objective_awayOnly(matrix, s) ==
    LET sol == s.solution
        num_slots == VecLen(sol)
    IN  IF num_slots = 0
        THEN Panic
        ELSE LET num_teams == VecLen(sol[0])
                 dim == VecLen(matrix)
                 st[k \in 0..(num_teams * num_slots)] ==
                     IF k = 0
                     THEN [total_distance |-> 0, bad |-> FALSE, overflow |-> FALSE]
                     ELSE LET prev == st[k - 1]
                              team == (k - 1) \div num_slots
                              slot == (k - 1) % num_slots
                              game == sol[slot][team]
                              next_location ==
                                  IF game.home_game THEN team ELSE game.opponent
                          IN  IF \/ prev.bad
                                 \/ team \notin 0..(dim - 1)
                                 \/ next_location \notin 0..(dim - 1)
                              THEN [prev EXCEPT !.bad = TRUE]
                              ELSE LET leg == matrix[team][next_location]
                                   IN  [total_distance |->
                                            I32WrappingAdd(prev.total_distance, leg),
                                        bad |-> FALSE,
                                        overflow |-> prev.overflow \/
                                            I32Overflows(prev.total_distance, leg)]
                 end == st[num_teams * num_slots]
             IN  IF end.bad
                 THEN Panic
                 ELSE [status |-> "ok", total_distance |-> end.total_distance,
                       overflow |-> end.overflow]

\* evaluate_objective(traveling_distance_matrix, solution_matrix): the two
\* nested loops, flattened in execution order (team outer, slot inner)
evaluate_objective(matrix, s) ==
    LET sol == s.solution
        num_slots == VecLen(sol)
    IN  IF num_slots = 0
        THEN Panic
        ELSE LET num_teams == VecLen(sol[0])
                 dim == VecLen(matrix)
                 st[k \in 0..(num_teams * num_slots)] ==
                     IF k = 0
                     THEN [total_distance |-> 0, current_location |-> 0,
                           bad |-> FALSE, overflow |-> FALSE]
                     ELSE LET prev == st[k - 1]
                              team == (k - 1) \div num_slots
                              slot == (k - 1) % num_slots
                              current_location ==
                                  IF slot = 0 THEN team ELSE prev.current_location
                              game == sol[slot][team]
                              next_location ==
                                  IF game.home_game THEN team ELSE game.opponent
                          IN  IF \/ prev.bad
                                 \/ current_location \notin 0..(dim - 1)
                                 \/ next_location \notin 0..(dim - 1)
                              THEN [prev EXCEPT !.bad = TRUE]
                              ELSE LET leg == matrix[current_location][next_location]
                                   IN  [total_distance |->
                                            I32WrappingAdd(prev.total_distance, leg),
                                        current_location |-> next_location,
                                        bad |-> FALSE,
                                        overflow |-> prev.overflow \/
                                            I32Overflows(prev.total_distance, leg)]
                 end == st[num_teams * num_slots]
             IN  IF end.bad
                 THEN Panic
                 ELSE [status |-> "ok", total_distance |-> end.total_distance,
                       overflow |-> end.overflow]

\* evaluate_solution(data, traveling_distance_matrix, solution_matrix): the
\* set of values the builds of the program can return. An overflow of the
\* i32 total panics in a debug build and wraps in a release build.
evaluate_solution(d, matrix, s) ==
    LET cc == check_constraints(d, s)
        obj == evaluate_objective(matrix, s)
        returned == [status |-> "ok",
                     distance |-> obj.total_distance,
                     capacity_constraints |-> cc.capacity_constraints,
                     separation_constraints |-> cc.separation_constraints,
                     round_robin_respect |-> cc.round_robin_respect]
    IN  IF cc.status = "panic" \/ obj.status = "panic" THEN {Panic}
        ELSE IF obj.overflow THEN {Panic, returned}
        ELSE {returned}

\* ------------------------------------------------------------------------
\* Instances and schedules the operations are applied to
\* ------------------------------------------------------------------------
\* largest number of teams of a stored schedule handed to the evaluator, and
\* largest number of cells (slots x teams) of such a schedule
MaxStoredTeams == 4
MaxCells == 12
\* largest window length and count bound of a capacity constraint
MaxIntp == 3
MaxCount == 2
\* largest gap bound of a separation constraint
MaxGap == 2
\* largest travel cost of a distance triple
MaxDist == 2
\* longest list of capacity constraints and of separation constraints
MaxCapConstraints == 1
MaxSepConstraints == 1

\* lists over S of length at most n
RECURSIVE SeqsUpTo(_, _)
SeqsUpTo(S, n) ==
    IF n = 0 THEN {<<>>}
    ELSE LET shorter == SeqsUpTo(S, n - 1)
         IN  shorter \cup {Append(q, x) : q \in {r \in shorter : Len(r) = n - 1}, x \in S}

\* Rawdata, restricted to the fields the engine reads
Rawdata(tms, slots, dists, caps, seps) ==
    [teams |-> tms, slots |-> slots, distances |-> dists,
     capacity_constraints |-> caps, separation_constraints |-> seps]

\* rows of a well-formed schedule: every team has an opponent other than
\* itself, opponents reference each other, exactly one side is at home
WellFormedRows(n) ==
    {row \in [0..(n - 1) -> [home_game : BOOLEAN, opponent : 0..(n - 1)]] :
        \A t \in 0..(n - 1) :
            /\ row[t].opponent # t
            /\ row[row[t].opponent].opponent = t
            /\ row[row[t].opponent].home_game # row[t].home_game}

\* stored schedules of n teams and k slots
StoredSolutions(n, k) ==
    {[id |-> 1, solution |-> m] : m \in [0..(k - 1) -> WellFormedRows(n)]}

\* ------------------------------------------------------------------------
\* Operations
\* ------------------------------------------------------------------------
\* FlorianStart that leaves the anchor where the ordering has it
FlorianStart_anchorInPlace ==
    /\ pc = "start"
    /\ solution_matrix' = SolutionNew(NumTeams, data.slots)
    /\ IF fixed_team >= NumTeams
       THEN /\ teams' = data.teams
            /\ pc' = "panic"
       ELSE /\ teams' = data.teams
            /\ pc' = IF NumRounds = 0 THEN "done" ELSE "rounds"
    /\ round' = 0
    /\ UNCHANGED <<data, fixed_team, upward, result>>
    /\ UNCHANGED <<sampler_vars, driver_vars, sink_vars>>

\* generate_florian_solution, up to the construction loop: Solution::new,
\* the working list of identifiers, the anchor moved to the tail
FlorianStart ==
    /\ pc = "start"
    /\ solution_matrix' = SolutionNew(NumTeams, data.slots)
    /\ IF fixed_team >= NumTeams
       THEN /\ teams' = data.teams
            /\ pc' = "panic"
       ELSE /\ teams' = VecPush(VecRemove(data.teams, fixed_team), data.teams[fixed_team])
            /\ pc' = IF NumRounds = 0 THEN "done" ELSE "rounds"
    /\ round' = 0
    /\ UNCHANGED <<data, fixed_team, upward, result>>
    /\ UNCHANGED <<sampler_vars, driver_vars, sink_vars>>

\* one iteration of `for round in 0..2 * (data.teams.len() - 1)`: the
\* pairings of the round, then the rotation; the first write into a row
\* the matrix does not have is an index panic
FlorianRound ==
    /\ pc = "rounds"
    /\ IF round >= data.slots
       THEN /\ pc' = "panic"
            /\ UNCHANGED <<teams, round, solution_matrix>>
       ELSE /\ solution_matrix' =
                   [solution_matrix EXCEPT !.solution[round] =
                        WriteRound(@, teams, NumTeams, round, upward, 0)]
            /\ teams' = Rotate(teams)
            /\ round' = round + 1
            /\ pc' = IF round + 1 = NumRounds THEN "done" ELSE "rounds"
    /\ UNCHANGED <<data, fixed_team, upward, result>>
    /\ UNCHANGED <<sampler_vars, driver_vars, sink_vars>>

\* evaluate_solution on the schedule just built (log_solution) or loaded
\* (generate_distances)
EvaluateSolution ==
    /\ pc \in {"done", "loaded"}
    /\ result' \in evaluate_solution(data, generate_traveling_distance_matrix(data),
                                     solution_matrix)
    /\ pc' = "evaluated"
    /\ UNCHANGED <<data, fixed_team, upward, teams, round, solution_matrix>>
    /\ UNCHANGED <<sampler_vars, driver_vars, sink_vars>>

\* ------------------------------------------------------------------------
\* Specification of the constructor: every ordering, anchor and direction,
\* declared slot counts around 2*(N-1); the schedule built is then evaluated
\* ------------------------------------------------------------------------
TeamCounts == 1..MaxTeams

DeclaredSlots(n) ==
    {k \in {2 * (n - 1) - SlotSlack, 2 * (n - 1), 2 * (n - 1) + SlotSlack} : k >= 0}

Init ==
    /\ \E n \in TeamCounts : \E tms \in Orderings(n) : \E k \in DeclaredSlots(n) :
           /\ data = Rawdata(tms, k, <<>>, <<>>, <<>>)
           /\ fixed_team \in 0..n
    /\ upward \in BOOLEAN
    /\ teams = EmptyVec
    /\ round = 0
    /\ solution_matrix = [id |-> -1, solution |-> EmptyVec]
    /\ pc = "start"
    /\ result = NoResult
    /\ SamplerIdle /\ DriverIdle /\ SinkIdle

Next == FlorianStart \/ FlorianRound \/ EvaluateSolution

Spec == Init /\ [][Next]_vars

\* ------------------------------------------------------------------------
\* Specifications of the evaluator: evaluate_solution applied to stored,
\* well-formed schedules (the generate_distances path of main)
\* ------------------------------------------------------------------------
StoredTeamCounts == {n \in 2..MaxStoredTeams : n % 2 = 0}

StoredSlotCounts(n) == 1..(MaxCells \div n)

IdentityTeams(n) == [i \in 0..(n - 1) |-> i]

CapacityDomain ==
    [c_intp : 0..MaxIntp, c_min : 0..(MaxCount - 1), c_max : 1..MaxCount,
     c_mode1 : {"A", "H", "N"}]

\* SeparationConstraints: c_min and c_max are i32 read from the instance
\* file, of either sign and in either order
SeparationDomain == [c_min : (-1)..MaxGap, c_max : (-1)..MaxGap]

\* the constraints with each bound negative or at MaxGap
SeparationCorners == [c_min : {-1, MaxGap}, c_max : {-1, MaxGap}]

\* the separation lists of the instances: no constraint, every single
\* constraint, and the lists over the corner constraints
SeparationLists ==
    {<<c>> : c \in SeparationDomain} \cup SeqsUpTo(SeparationCorners, MaxSepConstraints)

DistanceDomain(n) == [team1 : 0..(n - 1), team2 : 0..(n - 1), dist : 1..MaxDist]

\* the distance list of the 4-team scenario, cost |i - j| from i to j
ScenarioDistances(n) ==
    [k \in 1..(n * n) |->
        LET i == (k - 1) \div n
            j == (k - 1) % n
        IN  [team1 |-> i, team2 |-> j, dist |-> IF i < j THEN j - i ELSE i - j]]

\* distance lists of the instances: no triple, one triple (one cell of the
\* matrix set, legs are charged cell by cell), or the scenario's full list
DistanceLists(n) ==
    {<<>>, ScenarioDistances(n)} \cup {<<t>> : t \in DistanceDomain(n)}

InitStored(n, k, dists, caps, seps) ==
    /\ data = Rawdata(IdentityTeams(n), k, dists, caps, seps)
    /\ solution_matrix \in StoredSolutions(n, k)
    /\ fixed_team = 0
    /\ upward = TRUE
    /\ teams = EmptyVec
    /\ round = 0
    /\ pc = "loaded"
    /\ result = NoResult
    /\ SamplerIdle /\ DriverIdle /\ SinkIdle

NextEval == EvaluateSolution

InitCap ==
    \E n \in StoredTeamCounts : \E k \in StoredSlotCounts(n) :
        \E caps \in SeqsUpTo(CapacityDomain, MaxCapConstraints) :
            InitStored(n, k, <<>>, caps, <<>>)

SpecCap == InitCap /\ [][NextEval]_vars

InitSep ==
    \E n \in StoredTeamCounts : \E k \in StoredSlotCounts(n) :
        \E seps \in SeparationLists :
            InitStored(n, k, <<>>, <<>>, seps)

SpecSep == InitSep /\ [][NextEval]_vars

InitObj ==
    \E n \in StoredTeamCounts : \E k \in StoredSlotCounts(n) :
        \E dists \in DistanceLists(n) :
            InitStored(n, k, dists, <<>>, <<>>)

SpecObj == InitObj /\ [][NextEval]_vars

\* the degenerate fixture: every game of every team is a home game (the
\* opponents still pair up)
AllHomeRows(n) ==
    {row \in [0..(n - 1) -> [home_game : {TRUE}, opponent : 0..(n - 1)]] :
        \A t \in 0..(n - 1) :
            /\ row[t].opponent # t
            /\ row[row[t].opponent].opponent = t}

AllHomeSolutions(n, k) ==
    {[id |-> 1, solution |-> m] : m \in [0..(k - 1) -> AllHomeRows(n)]}

InitHome ==
    /\ \E n \in StoredTeamCounts : \E k \in StoredSlotCounts(n) :
           /\ data \in {Rawdata(IdentityTeams(n), k, dists, <<>>, <<>>) :
                           dists \in DistanceLists(n)}
           /\ solution_matrix \in AllHomeSolutions(n, k)
    /\ fixed_team = 0
    /\ upward = TRUE
    /\ teams = EmptyVec
    /\ round = 0
    /\ pc = "loaded"
    /\ result = NoResult
    /\ SamplerIdle /\ DriverIdle /\ SinkIdle

SpecHome == InitHome /\ [][NextEval]_vars


\* costs near the top of the i32 range of Distance.dist
WideCosts == {I32Max \div 2 + 1, I32Max}

\* distance lists of one triple with such a cost
WideDistanceLists(n) ==
    {<<[team1 |-> a, team2 |-> b, dist |-> c]>> :
        a \in 0..(n - 1), b \in 0..(n - 1), c \in WideCosts}

InitWide ==
    \E n \in StoredTeamCounts : \E k \in StoredSlotCounts(n) :
        \E dists \in WideDistanceLists(n) :
            InitStored(n, k, dists, <<>>, <<>>)

SpecWide == InitWide /\ [][NextEval]_vars

\* ------------------------------------------------------------------------
\* Specification of the Distance Matrix Builder: the matrix of an instance
\* with a short list of triples (main.rs:22)
\* ------------------------------------------------------------------------
\* largest number of teams and longest list of triples of such an instance
MaxMatrixTeams == 2
MaxTriples == 2

MatrixDistanceDomain(n) == [team1 : 0..(n - 1), team2 : 0..(n - 1), dist : 0..MaxDist]

\* triples naming a team the instance does not have
OutOfRangeTriples(n) ==
    [team1 : {-1, n}, team2 : {0}, dist : {1}] \cup [team1 : {0}, team2 : {-1, n}, dist : {1}]

MatrixDistanceLists(n) ==
    SeqsUpTo(MatrixDistanceDomain(n), MaxTriples) \cup {<<t>> : t \in OutOfRangeTriples(n)}

\* let traveling_distance_matrix = Solution::generate_traveling_distance_matrix(&raw_data_set)
GenerateMatrix ==
    /\ pc = "instance"
    /\ result' = IF MatrixPanics(data)
                 THEN Panic
                 ELSE [status |-> "ok",
                       traveling_distance_matrix |-> generate_traveling_distance_matrix(data)]
    /\ pc' = "matrix"
    /\ UNCHANGED <<data, fixed_team, upward, teams, round, solution_matrix>>
    /\ UNCHANGED <<sampler_vars, driver_vars, sink_vars>>

InitMatrix ==
    /\ \E n \in 1..MaxMatrixTeams : \E dists \in MatrixDistanceLists(n) :
           data = Rawdata(IdentityTeams(n), 2 * (n - 1), dists, <<>>, <<>>)
    /\ fixed_team = 0
    /\ upward = TRUE
    /\ teams = EmptyVec
    /\ round = 0
    /\ solution_matrix = [id |-> -1, solution |-> EmptyVec]
    /\ pc = "instance"
    /\ result = NoResult
    /\ SamplerIdle /\ DriverIdle /\ SinkIdle

NextMatrix == GenerateMatrix

SpecMatrix == InitMatrix /\ [][NextMatrix]_vars

\* ------------------------------------------------------------------------
\* Permutation Sampler: generate_random_permutations, run twice on the same
\* instance, count and seed
\* ------------------------------------------------------------------------
\* largest team count and requested count of a sampler run, and the number of
\* shuffles of one StdRng the model follows
MaxSampleTeams == 2
MaxSampleCount == 2
MaxDraws == 3

\* the seeds handed to the sampler (cli.rs: any u64, 42 by default)
Seeds == {0, 42}

Factorial(n) ==
    LET f[i \in 0..n] == IF i = 0 THEN 1 ELSE i * f[i - 1]
    IN  f[n]

\* the elements of a Vec
VecRange(v) == {v[i] : i \in DOMAIN v}

\* one call of save_to_file(data, path) and the Result it gave
SaveToFile(path, content, ok) == [path |-> path, content |-> content, ok |-> ok]

\* what a file holds when File::create(path) succeeded and the write did
\* not: nothing, or the beginning of the JSON text; it cannot be deserialized
Truncated == [truncated |-> TRUE]

\* the directory after File::create(path) and a write of content: the file
\* of that name is replaced
WriteFile(dir, path, content) ==
    [dir EXCEPT !.files = {f \in @ : f.path # path}
                              \cup {[path |-> path, content |-> content]}]

\* the decimal digits of a non-negative integer, as "{}" formats it
RECURSIVE Digits(_)
Digits(k) ==
    LET d == <<"0", "1", "2", "3", "4", "5", "6", "7", "8", "9">>[(k % 10) + 1]
    IN  IF k < 10 THEN <<d>> ELSE Append(Digits(k \div 10), d)

\* format!("{}/solution_{}.json", path, id_solution): the file name in the directory
SolutionFileName(id) ==
    <<"s", "o", "l", "u", "t", "i", "o", "n", "_">> \o Digits(id)
        \o <<".", "j", "s", "o", "n">>

\* str::starts_with and str::ends_with
StartsWith(name, prefix) ==
    Len(name) >= Len(prefix) /\ SubSeq(name, 1, Len(prefix)) = prefix

EndsWith(name, suffix) ==
    /\ Len(name) >= Len(suffix)
    /\ SubSeq(name, Len(name) - Len(suffix) + 1, Len(name)) = suffix

\* the orders in which a HashSet can be iterated
HashSetOrders(S) ==
    {v \in [0..(Cardinality(S) - 1) -> S] : VecRange(v) = S}

\* StdRng seeded from the entropy of the run instead of the seed
SeedFromU64_entropy(s) == [seed |-> -2 - VecLen(runs), pos |-> 0]

\* StdRng::seed_from_u64(seed)
SeedFromU64(s) == [seed |-> s, pos |-> 0]

\* a shuffle that leaves the clone as it was
Shuffles_noop(team_ids) == {team_ids}

\* what team_ids.clone().shuffle(&mut rng) can leave in perm
Shuffles(team_ids) ==
    {[i \in DOMAIN team_ids |-> team_ids[p[i]]] : p \in Orderings(VecLen(team_ids))}

\* SamplerContinues with `<=` in place of `<`
SamplerContinues_le(len, count) == ~UsizeLt(count, len)

\* the condition of the while loop: permutations.len() < number_permutations as usize
SamplerContinues(len, count) == UsizeLt(len, count)

\* let team_ids = ...; let mut rng = StdRng::seed_from_u64(seed);
\* let mut permutations = HashSet::new()
SamplerStart ==
    /\ pc \in {"sampler_start", "sampler_again"}
    /\ rng' = SeedFromU64(seed)
    /\ permutations' = {}
    /\ pc' = "sampling"
    /\ UNCHANGED <<data, fixed_team, upward, teams, round, solution_matrix, result>>
    /\ UNCHANGED <<number_permutations, seed, stream, runs, driver_vars, sink_vars>>

\* one iteration of the while loop: the shuffle StdRng yields at this seed
\* and position, inserted into the set
SamplerShuffle ==
    /\ pc = "sampling"
    /\ SamplerContinues(Cardinality(permutations), number_permutations)
    /\ rng.pos < MaxDraws
    /\ LET key == <<rng.seed, rng.pos>>
       IN  \E perm \in Shuffles(data.teams) :
               /\ key \in DOMAIN stream => perm = stream[key]
               /\ stream' = IF key \in DOMAIN stream THEN stream ELSE (key :> perm) @@ stream
               /\ permutations' = permutations \cup {perm}
    /\ rng' = [rng EXCEPT !.pos = @ + 1]
    /\ UNCHANGED <<data, fixed_team, upward, teams, round, solution_matrix, pc, result>>
    /\ UNCHANGED <<number_permutations, seed, runs, driver_vars, sink_vars>>

\* after the loop: the set collected into a Vec in the iteration order of the
\* HashSet, saved when asked (save_to_file(..).unwrap()) and returned
SamplerCollect ==
    /\ pc = "sampling"
    /\ ~SamplerContinues(Cardinality(permutations), number_permutations)
    /\ \E vec_perm \in HashSetOrders(permutations) :
           \/ /\ save
              /\ stored' = Append(stored, SaveToFile("permutation", vec_perm, FALSE))
              /\ runs' = runs
              /\ pc' = "panic"
           \/ /\ stored' = IF save
                           THEN Append(stored, SaveToFile("permutation", vec_perm, TRUE))
                           ELSE stored
              /\ runs' = VecPush(runs, vec_perm)
              /\ pc' = IF VecLen(runs) = 0 THEN "sampler_again" ELSE "sampled"
    /\ UNCHANGED <<data, fixed_team, upward, teams, round, solution_matrix, result>>
    /\ UNCHANGED <<number_permutations, seed, rng, stream, permutations, driver_vars>>
    /\ UNCHANGED <<save, directory>>

InitSampler ==
    /\ \E n \in 1..MaxSampleTeams :
           data = Rawdata(IdentityTeams(n), 2 * (n - 1), <<>>, <<>>, <<>>)
    /\ number_permutations \in -1..MaxSampleCount
    /\ seed \in Seeds
    /\ save \in BOOLEAN
    /\ rng = NoRng
    /\ stream = <<>>
    /\ permutations = {}
    /\ runs = EmptyVec
    /\ stored = <<>>
    /\ directory = EmptyDirectory
    /\ fixed_team = 0
    /\ upward = TRUE
    /\ teams = EmptyVec
    /\ round = 0
    /\ solution_matrix = [id |-> -1, solution |-> EmptyVec]
    /\ pc = "sampler_start"
    /\ result = NoResult
    /\ DriverIdle

NextSampler == SamplerStart \/ SamplerShuffle \/ SamplerCollect

SpecSampler == InitSampler /\ [][NextSampler]_vars

\* every ordering a shuffle can give
AllShuffles == UNION {Shuffles(IdentityTeams(n)) : n \in 1..MaxSampleTeams}

\* the iteration of the while loop whose shuffle gives perm, in a run that is
\* followed to its end: up to MaxDraws shuffles it is the step of
\* SamplerShuffle, perm being what StdRng yields at this seed and position;
\* past them the position is no longer counted and perm is any ordering
Draw(perm) ==
    /\ pc = "sampling"
    /\ SamplerContinues(Cardinality(permutations), number_permutations)
    /\ DOMAIN perm = DOMAIN data.teams
    /\ perm \in Shuffles(data.teams)
    /\ IF rng.pos < MaxDraws
       THEN LET key == <<rng.seed, rng.pos>>
            IN  /\ key \in DOMAIN stream => perm = stream[key]
                /\ stream' = IF key \in DOMAIN stream THEN stream
                              ELSE (key :> perm) @@ stream
                /\ rng' = [rng EXCEPT !.pos = @ + 1]
       ELSE UNCHANGED <<rng, stream>>
    /\ permutations' = permutations \cup {perm}
    /\ UNCHANGED <<data, fixed_team, upward, teams, round, solution_matrix, pc, result>>
    /\ UNCHANGED <<number_permutations, seed, runs, driver_vars, sink_vars>>

\* one iteration of the while loop
SamplerDraw == \E perm \in AllShuffles : Draw(perm)

NextSamplerFair ==
    \/ SamplerStart
    \/ SamplerDraw
    \/ SamplerCollect

\* the runs followed to their end: the seed and the save flag the command
\* line gives by default (cli.rs: seed 42, save false)
InitSamplerFair == InitSampler /\ seed = 42 /\ ~save

\* the sampler runs on, and the generator yields every ordering eventually
SpecSamplerFair ==
    /\ InitSamplerFair
    /\ [][NextSamplerFair]_vars
    /\ WF_vars(SamplerStart)
    /\ WF_vars(SamplerCollect)
    /\ \A perm \in AllShuffles : WF_vars(Draw(perm))

\* ------------------------------------------------------------------------
\* Enumeration Driver: generate_all_solutions
\* ------------------------------------------------------------------------
\* generate_florian_solution(data, fixed_team, upward) as one call: Panic, or
\* the schedule after the last round
generate_florian_solution(d, ft, up) ==
    LET n == VecLen(d.teams)
    IN  IF ft >= n
        THEN Panic
        ELSE LET rounds == 2 * (n - 1)
                 st[r \in 0..rounds] ==
                     IF r = 0
                     THEN [teams |-> VecPush(VecRemove(d.teams, ft), d.teams[ft]),
                           solution |-> SolutionNew(n, d.slots).solution,
                           bad |-> FALSE]
                     ELSE LET prev == st[r - 1]
                          IN  IF prev.bad \/ r - 1 >= d.slots
                              THEN [prev EXCEPT !.bad = TRUE]
                              ELSE [teams |-> Rotate(prev.teams),
                                    solution |->
                                        [prev.solution EXCEPT ![r - 1] =
                                            WriteRound(@, prev.teams, n, r - 1, up, 0)],
                                    bad |-> FALSE]
             IN  IF st[rounds].bad
                 THEN Panic
                 ELSE [status |-> "ok",
                       value |-> [id |-> -1, solution |-> st[rounds].solution]]

\* generate_solution(data, perm, fixed_team, upward, id)
generate_solution(d, perm, ft, up, id) ==
    LET temporary_data == [d EXCEPT !.teams = perm]
        built == generate_florian_solution(temporary_data, ft, up)
    IN  IF built.status = "panic"
        THEN Panic
        ELSE [status |-> "ok", value |-> [built.value EXCEPT !.id = id]]

\* teams_ordered: the teams of the instance named by the ordering, in its order
TeamsOrdered(d, team) ==
    LET found[i \in 0..VecLen(team)] ==
            IF i = 0 THEN EmptyVec
            ELSE IF team[i - 1] \in VecRange(d.teams)
                 THEN VecPush(found[i - 1], team[i - 1])
                 ELSE found[i - 1]
    IN  found[VecLen(team)]

\* log_solution that returns the second component of the evaluation
log_solution_capacity(solution, d, matrix) ==
    {IF o.status = "panic" THEN Panic
     ELSE [status |-> "ok", distance |-> o.capacity_constraints] :
        o \in evaluate_solution(d, matrix, solution)}

\* log_solution(solution, data, matrix): the values it can return
log_solution(solution, d, matrix) ==
    {IF o.status = "panic" THEN Panic
     ELSE [status |-> "ok", distance |-> o.distance] :
        o \in evaluate_solution(d, matrix, solution)}

\* NextUnit with the loop over the anchors outside the loop over the directions
NextUnit_anchorOuter(p, up, ft, n) ==
    IF up THEN [perm_index |-> p, upward |-> FALSE, fixed_team |-> ft]
    ELSE IF ft + 1 < n THEN [perm_index |-> p, upward |-> TRUE, fixed_team |-> ft + 1]
    ELSE [perm_index |-> p + 1, upward |-> TRUE, fixed_team |-> 0]

\* the loop variables of the unit that follows (p, up, ft):
\* for team in permutation { for direction in [true, false] {
\*     for fixed_team in 0..data.teams.len() { .. }}}
NextUnit(p, up, ft, n) ==
    IF ft + 1 < n THEN [perm_index |-> p, upward |-> up, fixed_team |-> ft + 1]
    ELSE IF up THEN [perm_index |-> p, upward |-> FALSE, fixed_team |-> 0]
    ELSE [perm_index |-> p + 1, upward |-> TRUE, fixed_team |-> 0]

\* entry of generate_all_solutions: the empty collections, the counter, the
\* progress bar, the first value of each loop variable
DriverStart ==
    /\ pc = "driver_start"
    /\ solutions' = EmptyVec
    /\ all_distances' = EmptyVec
    /\ id_solution' = 0
    /\ progress' = 0
    /\ perm_index' = 0
    /\ upward' = TRUE
    /\ fixed_team' = 0
    /\ pc' = "unit"
    /\ UNCHANGED <<data, teams, round, solution_matrix, result>>
    /\ UNCHANGED <<permutation, sampler_vars, sink_vars>>

\* id_solution = id_solution + 1; temporary_solution = generate_solution(..)
DriverGenerate ==
    /\ pc = "unit"
    /\ perm_index < VecLen(permutation)
    /\ id_solution' = id_solution + 1
    /\ LET built == generate_solution(data, TeamsOrdered(data, permutation[perm_index]),
                                      fixed_team, upward, id_solution + 1)
       IN  IF built.status = "panic"
           THEN /\ pc' = "panic"
                /\ UNCHANGED solution_matrix
           ELSE /\ pc' = "generated"
                /\ solution_matrix' = built.value
    /\ UNCHANGED <<data, fixed_team, upward, teams, round, result>>
    /\ UNCHANGED <<permutation, perm_index, solutions, all_distances, progress>>
    /\ UNCHANGED <<sampler_vars, sink_vars>>

\* distance_solution = log_solution(&temporary_solution, &data, &matrix)
DriverLog ==
    /\ pc = "generated"
    /\ \E traveling_distance_matrix \in {generate_traveling_distance_matrix(data)} :
           result' \in log_solution(solution_matrix, data, traveling_distance_matrix)
    /\ pc' = IF result'.status = "panic" THEN "panic" ELSE "logged"
    /\ UNCHANGED <<data, fixed_team, upward, teams, round, solution_matrix>>
    /\ UNCHANGED <<driver_vars, sampler_vars, sink_vars>>

\* solutions.push(temporary_solution.clone());
\* all_distances.push(distance_solution as i128)
DriverPush ==
    /\ pc = "logged"
    /\ solutions' = VecPush(solutions, solution_matrix)
    /\ all_distances' = VecPush(all_distances, result.distance)
    /\ pc' = "pushed"
    /\ UNCHANGED <<data, fixed_team, upward, teams, round, solution_matrix, result>>
    /\ UNCHANGED <<permutation, perm_index, id_solution, progress>>
    /\ UNCHANGED <<sampler_vars, sink_vars>>

\* DriverSave that stores whatever the flag says
DriverSave_always ==
    /\ pc = "pushed"
    /\ \/ /\ directory.exists
          /\ stored' = Append(stored, SaveToFile(SolutionFileName(id_solution),
                                                solution_matrix, TRUE))
          /\ directory' = WriteFile(directory, SolutionFileName(id_solution),
                                    solution_matrix)
          /\ pc' = "saved"
       \/ /\ stored' = Append(stored, SaveToFile(SolutionFileName(id_solution),
                                                solution_matrix, FALSE))
          /\ \/ directory' = directory
             \/ /\ directory.exists
                /\ directory' = WriteFile(directory, SolutionFileName(id_solution),
                                          Truncated)
          /\ pc' = "panic"
    /\ UNCHANGED <<data, fixed_team, upward, teams, round, solution_matrix, result>>
    /\ UNCHANGED <<driver_vars, sampler_vars, save>>

\* if save { save_to_file(&temporary_solution, ".../solution_{id}.json").unwrap(); }
\* File::create needs the directory to be there. The call fails either in
\* File::create, which leaves the directory as it was, or in the write after
\* File::create has made or emptied the file
DriverSave ==
    /\ pc = "pushed"
    /\ \/ /\ ~save
          /\ stored' = stored
          /\ directory' = directory
          /\ pc' = "saved"
       \/ /\ save
          /\ directory.exists
          /\ stored' = Append(stored, SaveToFile(SolutionFileName(id_solution),
                                                solution_matrix, TRUE))
          /\ directory' = WriteFile(directory, SolutionFileName(id_solution),
                                    solution_matrix)
          /\ pc' = "saved"
       \/ /\ save
          /\ stored' = Append(stored, SaveToFile(SolutionFileName(id_solution),
                                                solution_matrix, FALSE))
          /\ \/ directory' = directory
             \/ /\ directory.exists
                /\ directory' = WriteFile(directory, SolutionFileName(id_solution),
                                          Truncated)
          /\ pc' = "panic"
    /\ UNCHANGED <<data, fixed_team, upward, teams, round, solution_matrix, result>>
    /\ UNCHANGED <<driver_vars, sampler_vars, save>>

\* progress.inc(), then the loops move to the next unit
DriverInc ==
    /\ pc = "saved"
    /\ progress' = progress + 1
    /\ LET next == NextUnit(perm_index, upward, fixed_team, NumTeams)
       IN  /\ perm_index' = next.perm_index
           /\ upward' = next.upward
           /\ fixed_team' = next.fixed_team
    /\ pc' = "unit"
    /\ UNCHANGED <<data, teams, round, solution_matrix, result>>
    /\ UNCHANGED <<permutation, id_solution, solutions, all_distances>>
    /\ UNCHANGED <<sampler_vars, sink_vars>>

\* the loops are over: (solutions, all_distances) is returned
DriverReturn ==
    /\ pc = "unit"
    /\ perm_index >= VecLen(permutation)
    /\ pc' = "returned"
    /\ UNCHANGED <<data, fixed_team, upward, teams, round, solution_matrix, result>>
    /\ UNCHANGED <<driver_vars, sampler_vars, sink_vars>>

\* largest team count of an enumeration run and longest list of orderings
MaxDriverTeams == 4
MaxOrderings == 2

\* the orderings handed to the driver: the team list and its reverse
DriverOrderings(n) ==
    {IdentityTeams(n), [i \in 0..(n - 1) |-> n - 1 - i]}

\* Vecs over S of length at most n
VecsUpTo(S, n) == UNION {[0..(len - 1) -> S] : len \in 0..n}

\* the arguments of a run and the state it starts in
DriverInputs ==
    /\ \E n \in 1..MaxDriverTeams : \E k \in DeclaredSlots(n) :
           /\ data \in {Rawdata(IdentityTeams(n), k, dists, <<>>, <<>>) :
                           dists \in {<<>>, ScenarioDistances(n)}}
           /\ permutation \in VecsUpTo(DriverOrderings(n), MaxOrderings)
    /\ save \in BOOLEAN
    /\ stored = <<>>
    /\ perm_index = 0
    /\ id_solution = 0
    /\ solutions = EmptyVec
    /\ all_distances = EmptyVec
    /\ progress = 0
    /\ fixed_team = 0
    /\ upward = TRUE
    /\ teams = EmptyVec
    /\ round = 0
    /\ solution_matrix = [id |-> -1, solution |-> EmptyVec]
    /\ pc = "driver_start"
    /\ result = NoResult
    /\ SamplerIdle

\* a run whose directory is there and empty
InitDriver == DriverInputs /\ directory = EmptyDirectory

NextDriver ==
    \/ DriverStart
    \/ DriverGenerate
    \/ DriverLog
    \/ DriverPush
    \/ DriverSave
    \/ DriverInc
    \/ DriverReturn

SpecDriver == InitDriver /\ [][NextDriver]_vars

\* ------------------------------------------------------------------------
\* The constructor followed by the evaluation, on instances that carry
\* separation constraints
\* ------------------------------------------------------------------------
\* longest list of separation constraints of a constructed-and-evaluated
\* instance
MaxMirrorConstraints == 2

\* separation constraints with bounds of either sign and in either order,
\* on either side of N-1
MirrorSeparationDomain == [c_min : (-1)..MaxTeams, c_max : (-1)..MaxTeams]

\* the constraints with each bound negative or at MaxTeams - 1
MirrorSeparationCorners ==
    [c_min : {-1, MaxTeams - 1}, c_max : {-1, MaxTeams - 1}]

\* no constraint, every single constraint, and the lists over the corner
\* constraints
MirrorSeparationLists ==
    {<<c>> : c \in MirrorSeparationDomain}
        \cup SeqsUpTo(MirrorSeparationCorners, MaxMirrorConstraints)

InitMirror ==
    /\ \E n \in {m \in 2..MaxTeams : m % 2 = 0} : \E tms \in Orderings(n) :
       \E seps \in MirrorSeparationLists :
           /\ data = Rawdata(tms, 2 * (n - 1), <<>>, <<>>, seps)
           /\ fixed_team \in 0..(n - 1)
    /\ upward \in BOOLEAN
    /\ teams = EmptyVec
    /\ round = 0
    /\ solution_matrix = [id |-> -1, solution |-> EmptyVec]
    /\ pc = "start"
    /\ result = NoResult
    /\ SamplerIdle /\ DriverIdle /\ SinkIdle

SpecMirror == InitMirror /\ [][Next]_vars

\* ------------------------------------------------------------------------
\* The rebuild entry point: load_solutions, then generate_distances

\* filename.starts_with("solutions_") && filename.ends_with(".json")
IsSolutionFile(filename) ==
    /\ StartsWith(filename, <<"s", "o", "l", "u", "t", "i", "o", "n", "s", "_">>)
    /\ EndsWith(filename, <<".", "j", "s", "o", "n">>)

\* v with x inserted at position k
VecInsert(v, k, x) ==
    [i \in 0..VecLen(v) |-> IF i < k THEN v[i] ELSE IF i = k THEN x ELSE v[i - 1]]

\* all_solutions.sort_by_key(|s| s.id): a stable sort
SortByKeyId(v) ==
    LET f[i \in 0..VecLen(v)] ==
            IF i = 0 THEN EmptyVec
            ELSE LET sorted == f[i - 1]
                     x == v[i - 1]
                     k == Cardinality({j \in DOMAIN sorted : sorted[j].id <= x.id})
                 IN  VecInsert(sorted, k, x)
    IN  f[VecLen(v)]

\* load_solutions(path): fs::read_dir(path).expect(..) panics when the
\* directory is missing and from_reader(..).expect(..) when a file of the
\* pattern cannot be deserialized; otherwise the lists it can return, one per
\* order in which read_dir yields the entries
load_solutions(dir) ==
    IF ~dir.exists
    THEN {Panic}
    ELSE LET files == {f \in dir.files : IsSolutionFile(f.path)}
         IN  IF \E f \in files : f.content = Truncated
             THEN {Panic}
             ELSE {[status |-> "ok",
                    loaded |-> SortByKeyId([i \in DOMAIN order |->
                                               order[i].content])] :
                      order \in HashSetOrders(files)}

\* generate_distances(solutions, data, matrix): the outcomes of evaluating
\* the schedules in turn and collecting the distances
generate_distances(list, d, matrix) ==
    LET acc[i \in 0..VecLen(list)] ==
            IF i = 0 THEN {[status |-> "ok", all_distances |-> EmptyVec]}
            ELSE UNION {
                   IF p.status = "panic" THEN {Panic}
                   ELSE {IF o.status = "panic" THEN Panic
                         ELSE [status |-> "ok",
                               all_distances |-> VecPush(p.all_distances, o.distance)] :
                            o \in evaluate_solution(d, matrix, list[i - 1])} :
                   p \in acc[i - 1]}
    IN  acc[VecLen(list)]

\* let loaded = Solution::load_solutions("solutions/");
LoadSolutions ==
    /\ pc = "returned"
    /\ \E out \in load_solutions(directory) :
           /\ result' = out
           /\ pc' = IF out.status = "panic" THEN "panic" ELSE "loaded_all"
    /\ UNCHANGED <<data, fixed_team, upward, teams, round, solution_matrix>>
    /\ UNCHANGED <<driver_vars, sampler_vars, sink_vars>>

\* let sum = Solution::generate_distances(loaded, &raw_data_set, &matrix);
GenerateDistances ==
    /\ pc = "loaded_all"
    /\ \E traveling_distance_matrix \in {generate_traveling_distance_matrix(data)} :
       \E out \in generate_distances(result.loaded, data, traveling_distance_matrix) :
           /\ result' = IF out.status = "panic" THEN Panic
                        ELSE [status |-> "ok", loaded |-> result.loaded,
                              sum |-> out.all_distances]
           /\ pc' = IF out.status = "panic" THEN "panic" ELSE "rebuilt"
    /\ UNCHANGED <<data, fixed_team, upward, teams, round, solution_matrix>>
    /\ UNCHANGED <<driver_vars, sampler_vars, sink_vars>>

NextRebuild ==
    \/ NextDriver
    \/ LoadSolutions
    \/ GenerateDistances

\* a file name the loader accepts: "solutions_{k}.json"
LoadableFileName(k) ==
    <<"s", "o", "l", "u", "t", "i", "o", "n", "s", "_">> \o Digits(k)
        \o <<".", "j", "s", "o", "n">>

\* a schedule of the instance kept in a file, under identifier id
KeptSchedule(d, id) ==
    LET built == generate_florian_solution(d, 0, TRUE)
    IN  IF built.status = "ok"
        THEN [built.value EXCEPT !.id = id]
        ELSE [SolutionNew(VecLen(d.teams), d.slots) EXCEPT !.id = id]

\* what the directory can be before the run: missing, empty, or holding
\* files of that name from before
Directories(d) ==
    {NoDirectory,
     EmptyDirectory,
     WriteFile(EmptyDirectory, LoadableFileName(9), KeptSchedule(d, 3)),
     WriteFile(WriteFile(EmptyDirectory, LoadableFileName(1), KeptSchedule(d, 5)),
               LoadableFileName(9), KeptSchedule(d, 3)),
     WriteFile(EmptyDirectory, LoadableFileName(2), Truncated)}

InitRebuild == DriverInputs /\ directory \in Directories(data)

SpecRebuild == InitRebuild /\ [][NextRebuild]_vars

\* ------------------------------------------------------------------------
\* Duplicate detection: has_duplicate_solutions
\* ------------------------------------------------------------------------
\* has_duplicate_solutions with schedules compared by their game matrix only
has_duplicate_solutions_matrixOnly(list) ==
    LET st[i \in 0..VecLen(list)] ==
            IF i = 0 THEN [seen |-> {}, found |-> FALSE]
            ELSE LET prev == st[i - 1]
                     sol == list[i - 1].solution
                 IN  IF prev.found \/ sol \in prev.seen
                     THEN [prev EXCEPT !.found = TRUE]
                     ELSE [seen |-> prev.seen \cup {sol}, found |-> FALSE]
    IN  st[VecLen(list)].found

\* the loop over the list: true at the first entry the HashSet already holds;
\* Eq and Hash of Solution are derived over the fields id and solution
has_duplicate_solutions(list) ==
    LET st[i \in 0..VecLen(list)] ==
            IF i = 0 THEN [seen |-> {}, found |-> FALSE]
            ELSE LET prev == st[i - 1]
                     sol == list[i - 1]
                 IN  IF prev.found \/ sol \in prev.seen
                     THEN [prev EXCEPT !.found = TRUE]
                     ELSE [seen |-> prev.seen \cup {sol}, found |-> FALSE]
    IN  st[VecLen(list)].found

\* println!("{}", Solution::has_duplicate_solutions(&list))
HasDuplicateSolutions ==
    /\ pc \in {"returned", "listed"}
    /\ result' = [status |-> "ok", has_duplicates |-> has_duplicate_solutions(solutions)]
    /\ pc' = "checked"
    /\ UNCHANGED <<data, fixed_team, upward, teams, round, solution_matrix>>
    /\ UNCHANGED <<driver_vars, sampler_vars, sink_vars>>

\* longest list handed to has_duplicate_solutions directly and largest identifier in it
MaxListed == 3
MaxListedIds == 2

\* the schedules of such a list: one-slot schedules of two teams
ListedSolutions ==
    {[id |-> i, solution |-> s.solution] :
        i \in 1..MaxListedIds, s \in StoredSolutions(2, 1)}

\* a list of schedules as a caller can hand it over, identifiers repeated or not
InitListed ==
    /\ data = Rawdata(IdentityTeams(2), 1, <<>>, <<>>, <<>>)
    /\ solutions \in VecsUpTo(ListedSolutions, MaxListed)
    /\ permutation = EmptyVec
    /\ save = FALSE
    /\ stored = <<>>
    /\ directory = EmptyDirectory
    /\ perm_index = 0
    /\ id_solution = 0
    /\ all_distances = EmptyVec
    /\ progress = 0
    /\ fixed_team = 0
    /\ upward = TRUE
    /\ teams = EmptyVec
    /\ round = 0
    /\ solution_matrix = [id |-> -1, solution |-> EmptyVec]
    /\ pc = "listed"
    /\ result = NoResult
    /\ SamplerIdle

InitDuplicates == InitDriver \/ InitListed

NextDuplicates == NextDriver \/ HasDuplicateSolutions

SpecDuplicates == InitDuplicates /\ [][NextDuplicates]_vars

\* ------------------------------------------------------------------------
\* Properties
\* ------------------------------------------------------------------------
Sol == solution_matrix.solution
Slots == 0..(VecLen(Sol) - 1)
TeamIds == 0..(NumTeams - 1)

\* the preconditions of the constructor: N even and >= 2, anchor in range
ConstructorAccepts == NumTeams >= 2 /\ NumTeams % 2 = 0 /\ fixed_team < NumTeams

\* the slots in which team a meets team b
Meetings(a, b) == {s \in Slots : Sol[s][a].opponent = b}

MaxOf(S) == CHOOSE x \in S : \A y \in S : y <= x

\* C1: for even N >= 2, every anchor and direction, the schedule returned by
\* the constructor has exactly 2*(N-1) slots, whatever number of slots the
\* instance declares.
C1_SlotCount ==
    (pc = "done" /\ ConstructorAccepts) => VecLen(Sol) = 2 * (NumTeams - 1)

\* C2: for an instance declaring 2*(N-1) slots, the constructed schedule has
\* no unassigned cell and no team opposing itself, and every two distinct
\* teams meet in exactly two slots, one in the first N-1 slots and one in the
\* last N-1, with one of them at home in the first and the other in the second.
C2_DoubleRoundRobin ==
    (pc = "done" /\ ConstructorAccepts /\ data.slots = NumRounds) =>
        /\ \A s \in Slots : \A t \in TeamIds : Sol[s][t].opponent \in TeamIds \ {t}
        /\ \A a, b \in TeamIds : a # b =>
               \E s1 \in 0..(NumTeams - 2) : \E s2 \in (NumTeams - 1)..(NumRounds - 1) :
                   /\ Meetings(a, b) = {s1, s2}
                   /\ \/ Sol[s1][a].home_game /\ ~Sol[s1][b].home_game
                         /\ Sol[s2][b].home_game /\ ~Sol[s2][a].home_game
                      \/ Sol[s1][b].home_game /\ ~Sol[s1][a].home_game
                         /\ Sol[s2][a].home_game /\ ~Sol[s2][b].home_game

C2_Witness ==
    /\ pc = "done" /\ NumTeams = 4 /\ data.slots = 6
    /\ fixed_team = 2 /\ ~upward /\ data.teams[0] = 3

\* C3: in every state of the construction, for every slot s and team t whose
\* cell names a team o as opponent, the cell of o names t and exactly one of
\* the two cells is a home game.
C3_Symmetry ==
    \A s \in Slots : \A t, o \in TeamIds :
        Sol[s][t].opponent = o =>
            /\ Sol[s][o].opponent = t
            /\ Sol[s][t].home_game # Sol[s][o].home_game

C3_Witness ==
    /\ pc = "rounds" /\ round = 3 /\ NumTeams = 4 /\ fixed_team = 1
    /\ Sol[2][0].opponent \in TeamIds /\ Sol[3][0].opponent = -1

\* C5: capacity_violations is the number of (constraint, team, window)
\* triples, windows lying fully inside the schedule, whose count of home
\* games (mode 'H') or away games (mode 'A') is below c_min or above c_max.
C5_ModeCount(c, t, w) ==
    Cardinality({s \in w..(w + c.c_intp - 1) :
                    \/ c.c_mode1 = "H" /\ Sol[s][t].home_game
                    \/ c.c_mode1 = "A" /\ ~Sol[s][t].home_game})

C5_CapacityCount ==
    (pc = "evaluated" /\ result.status = "ok") =>
        result.capacity_constraints =
            Cardinality({x \in (1..Len(data.capacity_constraints)) \X TeamIds
                                   \X (0..VecLen(Sol)) :
                LET c == data.capacity_constraints[x[1]]
                IN  /\ x[3] <= VecLen(Sol) - c.c_intp
                    /\ \/ C5_ModeCount(c, x[2], x[3]) < c.c_min
                       \/ C5_ModeCount(c, x[2], x[3]) > c.c_max})

\* C6 as stated: separation_violations is the number of (constraint, team,
\* slot) triples where the team meets an opponent it met in an earlier slot
\* and the gap to the most recent earlier meeting is <= c_min or > c_max,
\* the bounds compared as the integers the instance declares.
C6_Earlier(t, s) == {s0 \in 0..(s - 1) : Sol[s0][t].opponent = Sol[s][t].opponent}

C6_SeparationCount ==
    (pc = "evaluated" /\ result.status = "ok") =>
        result.separation_constraints =
            Cardinality({x \in (1..Len(data.separation_constraints)) \X TeamIds \X Slots :
                LET c == data.separation_constraints[x[1]]
                    earlier == C6_Earlier(x[2], x[3])
                IN  /\ earlier # {}
                    /\ \/ x[3] - MaxOf(earlier) <= c.c_min
                       \/ x[3] - MaxOf(earlier) > c.c_max})

\* C7 as stated: round_robin_ok is false exactly when some pair of teams
\* meets in more than 4 slots.
C7_FourMeetings ==
    (pc = "evaluated" /\ result.status = "ok") =>
        (~result.round_robin_respect <=>
            \E a, b \in TeamIds : a < b /\ Cardinality(Meetings(a, b)) > 4)

\* C7 amended: round_robin_ok is false exactly when some pair of teams meets
\* in more than 2 slots.
C7_TwoMeetings ==
    (pc = "evaluated" /\ result.status = "ok") =>
        (~result.round_robin_respect <=>
            \E a, b \in TeamIds : a < b /\ Cardinality(Meetings(a, b)) > 2)

C7_Witness ==
    /\ pc = "evaluated" /\ result.status = "ok" /\ NumTeams = 4
    /\ ~result.round_robin_respect
    /\ Cardinality(Meetings(0, 1)) = 3

\* C8: every schedule the constructor builds for an instance with 2*(N-1)
\* slots is evaluated with round_robin_ok = true.
C8_ConstructedRoundRobinOk ==
    (pc = "evaluated" /\ ConstructorAccepts /\ data.slots = NumRounds) =>
        (result.status = "ok" /\ result.round_robin_respect)

C8_Witness ==
    /\ pc = "evaluated" /\ NumTeams = 4 /\ data.slots = 6 /\ fixed_team = 3
    /\ upward /\ result.status = "ok" /\ result.round_robin_respect

\* C9: check_constraints never fails on a well-formed schedule, whatever the
\* capacity constraints of the instance, a window longer than the schedule
\* included.
C9_NeverFails ==
    pc = "evaluated" => result.status = "ok"

\* C10: the distance of a schedule is the sum over all teams and slots of
\* matrix[cur][next], cur being the venue of the team's previous slot (its
\* own venue before slot 0) and next the venue of the slot; no other leg.
C10_Venue(t, s) ==
    IF s < 0 \/ Sol[s][t].home_game THEN t ELSE Sol[s][t].opponent

C10_TravelSimulation ==
    (pc = "evaluated" /\ result.status = "ok") =>
        result.distance =
            SumOver(NumTeams * NumTeams, LAMBDA i :
                LET from == i \div NumTeams
                    to == i % NumTeams
                IN  generate_traveling_distance_matrix(data)[from][to] *
                    Cardinality({x \in TeamIds \X Slots :
                                    /\ C10_Venue(x[1], x[2] - 1) = from
                                    /\ C10_Venue(x[1], x[2]) = to}))

C10_Witness ==
    /\ pc = "evaluated" /\ result.status = "ok" /\ NumTeams = 4 /\ VecLen(Sol) = 2
    /\ ~Sol[0][0].home_game /\ ~Sol[1][0].home_game
    /\ Sol[0][0].opponent = 1 /\ Sol[1][0].opponent = 2
    /\ data.distances = <<[team1 |-> 1, team2 |-> 2, dist |-> 2]>>
    /\ result.distance > 0

\* C11: a schedule in which every game of every team is a home game is
\* evaluated with total distance 0, for every matrix built from a list of
\* distance triples.
C11_AllHomeZero ==
    (pc = "evaluated" /\ \A s \in Slots : \A t \in TeamIds : Sol[s][t].home_game) =>
        (result.status = "ok" /\ result.distance = 0)

\* C12: the distance reported for a schedule is the exact mathematical sum of
\* its travel legs, for any matrix of 32-bit costs: the evaluation returns and
\* no overflow or wrap-around occurs. The exact sum of the (non-negative)
\* legs is kept in two limbs, hi * 2^31 + lo.
C12_Leg(i) ==
    LET team == i \div VecLen(Sol)
        slot == i % VecLen(Sol)
    IN  generate_traveling_distance_matrix(data)[C10_Venue(team, slot - 1)]
                                                [C10_Venue(team, slot)]

C12_ExactTotal ==
    LET acc[i \in 0..(NumTeams * VecLen(Sol))] ==
            IF i = 0
            THEN [hi |-> 0, lo |-> 0]
            ELSE LET prev == acc[i - 1]
                     leg == C12_Leg(i - 1)
                 IN  IF prev.lo > I32Max - leg
                     THEN [hi |-> prev.hi + 1, lo |-> (prev.lo - I32Max) + (leg - 1)]
                     ELSE [hi |-> prev.hi, lo |-> prev.lo + leg]
    IN  acc[NumTeams * VecLen(Sol)]

C12_NoOverflow ==
    pc = "evaluated" =>
        /\ result.status = "ok"
        /\ C12_ExactTotal.hi = 0
        /\ result.distance = C12_ExactTotal.lo

\* C13: for N teams and a list of triples with identifiers in 0..N-1, the
\* builder returns an N x N matrix whose cell [a][b] holds the dist of the
\* last triple of the list naming (a, b), and 0 when no triple names (a, b);
\* so a triple for (a, b) never changes cell [b][a].
C13_Hits(a, b) ==
    {k \in 1..Len(data.distances) :
        data.distances[k].team1 = a /\ data.distances[k].team2 = b}

C13_LastWriteWins ==
    (pc = "matrix" /\ ~MatrixPanics(data)) =>
        /\ result.status = "ok"
        /\ DOMAIN result.traveling_distance_matrix = TeamIds
        /\ \A a, b \in TeamIds :
               /\ DOMAIN result.traveling_distance_matrix[a] = TeamIds
               /\ result.traveling_distance_matrix[a][b] =
                      IF C13_Hits(a, b) = {}
                      THEN 0
                      ELSE data.distances[MaxOf(C13_Hits(a, b))].dist

C13_Witness ==
    /\ pc = "matrix" /\ result.status = "ok" /\ NumTeams = 2
    /\ data.distances = <<[team1 |-> 0, team2 |-> 1, dist |-> 2],
                          [team1 |-> 0, team2 |-> 1, dist |-> 1]>>
    /\ result.traveling_distance_matrix[0][1] = 1
    /\ result.traveling_distance_matrix[1][0] = 0

\* C14: whenever generate_random_permutations returns, the returned
\* collection has exactly `count` orderings, every ordering has the length
\* and the elements of the team identifiers, and no two orderings are equal.
C14_ExactDistinctPermutations ==
    \A r \in DOMAIN runs :
        /\ VecLen(runs[r]) = number_permutations
        /\ \A i \in DOMAIN runs[r] :
               /\ VecLen(runs[r][i]) = NumTeams
               /\ VecRange(runs[r][i]) = VecRange(data.teams)
        /\ \A i, j \in DOMAIN runs[r] : runs[r][i] = runs[r][j] => i = j

C14_Witness ==
    /\ VecLen(runs) >= 1 /\ NumTeams = 2 /\ number_permutations = 2
    /\ runs[0][0] = (0 :> 1 @@ 1 :> 0)
    /\ runs[0][1] = (0 :> 0 @@ 1 :> 1)
    /\ rng.pos = 3

\* C15: two runs of the sampler with the same team identifiers, count and
\* seed return collections with the same membership; the order in which the
\* orderings are listed may differ.
C15_Reproducible ==
    VecLen(runs) = 2 => VecRange(runs[0]) = VecRange(runs[1])

C15_Witness ==
    /\ pc = "sampled" /\ NumTeams = 2 /\ number_permutations = 2
    /\ VecRange(runs[0]) = VecRange(runs[1])
    /\ runs[0] # runs[1]

\* C16: a request for more orderings than exist (count > N!) is validated and
\* rejected: the sampler never enters its loop for such a request.
C16_Validated ==
    pc = "sampling" => number_permutations <= Factorial(NumTeams)

\* C17: the k-th schedule appended by generate_all_solutions (k from 1) has
\* identifier k and is the construction for ordering (k-1) div 2N, direction
\* upward for the first N schedules of an ordering and downward for the next
\* N, and anchor (k-1) mod N; the run returns 2 * N * |orderings| schedules.
C17_Expected(k) ==
    LET ordering == permutation[(k - 1) \div (2 * NumTeams)]
    IN  generate_florian_solution([data EXCEPT !.teams = ordering],
                                  (k - 1) % NumTeams,
                                  ((k - 1) % (2 * NumTeams)) < NumTeams)

C17_OrderAndIdentifiers ==
    /\ \A k \in 1..VecLen(solutions) :
           /\ solutions[k - 1].id = k
           /\ (k - 1) \div (2 * NumTeams) < VecLen(permutation)
           /\ C17_Expected(k).status = "ok"
           /\ solutions[k - 1].solution = C17_Expected(k).value.solution
    /\ pc = "returned" => VecLen(solutions) = 2 * NumTeams * VecLen(permutation)

C17_Witness ==
    /\ pc = "returned" /\ NumTeams = 4 /\ VecLen(permutation) = 2
    /\ permutation[0] # permutation[1]
    /\ VecLen(solutions) = 16
    /\ solutions[11].id = 12 /\ solutions[11].solution # solutions[3].solution

\* C18: after every completed unit of work and in the pair returned, the two
\* collections have equal length and distances[i] is the Objective
\* Evaluator's value for schedules[i] under the matrix.
C18_DistancesMatch ==
    /\ VecLen(solutions) = VecLen(all_distances)
    /\ \A i \in DOMAIN solutions :
           all_distances[i] =
               evaluate_objective(generate_traveling_distance_matrix(data),
                                  solutions[i]).total_distance

C18_Witness ==
    /\ pc = "returned" /\ NumTeams = 4 /\ VecLen(all_distances) = 8
    /\ all_distances[0] > 0 /\ all_distances[7] > 0

\* C19: in every unit the driver constructs, evaluates, appends, stores and
\* then advances, in this order: store is called once per generated schedule
\* when the save flag is true and never when it is false, advance once per
\* completed unit.
C19_StoreCalls(n) == Len(stored) = IF save THEN n ELSE 0

C19_UnitSteps ==
    /\ pc = "unit" =>
           id_solution = progress /\ VecLen(solutions) = progress /\ C19_StoreCalls(progress)
    /\ pc \in {"generated", "logged"} =>
           /\ id_solution = progress + 1 /\ solution_matrix.id = id_solution
           /\ VecLen(solutions) = progress /\ C19_StoreCalls(progress)
    /\ pc = "pushed" =>
           /\ id_solution = progress + 1 /\ VecLen(solutions) = progress + 1
           /\ solutions[progress] = solution_matrix /\ C19_StoreCalls(progress)
    /\ pc = "saved" =>
           /\ id_solution = progress + 1 /\ VecLen(solutions) = progress + 1
           /\ C19_StoreCalls(progress + 1)
    /\ pc = "returned" =>
           progress = 2 * NumTeams * VecLen(permutation) /\ C19_StoreCalls(progress)
    /\ \A i \in 1..Len(stored) :
           /\ stored[i].path = SolutionFileName(i)
           /\ stored[i].content = solutions[i - 1]

C19_Witness ==
    /\ pc = "returned" /\ NumTeams = 4 /\ save
    /\ progress = 8 /\ Len(stored) = 8

\* C20: when a store call of the sink fails during an enumeration run, the
\* failure is surfaced as a failure of that call: the run is not aborted, and
\* the schedules and distances computed so far stay available to the caller.
C20_StoreFailureSurfaced ==
    (\E i \in 1..Len(stored) : ~stored[i].ok) => pc # "panic"

\* C21: after an enumeration run that saved its schedules into an empty
\* directory, the rebuild loads every persisted schedule in ascending
\* identifier order and returns the distance collection of the run
C21_OtherwiseEmpty ==
    /\ directory.exists
    /\ \A f \in directory.files :
           \E i \in 1..Len(stored) : stored[i].ok /\ stored[i].path = f.path

C21_RoundTrip ==
    (pc = "rebuilt" /\ save /\ C21_OtherwiseEmpty) =>
        /\ result.loaded = solutions
        /\ result.sum = all_distances

\* C22: an odd number of teams or an anchor_index outside 0..N-1 is rejected
\* before any Game is written: the constructor never enters the rounds and
\* never returns a schedule for such an input
C22_Rejected ==
    ~ConstructorAccepts =>
        /\ pc \notin {"rounds", "done", "evaluated"}
        /\ \A s \in Slots : \A t \in DOMAIN Sol[s] : Sol[s][t] = DefaultGame

\* C23: for a count between 0 and N!, the retry loop of the sampler
\* terminates when every ordering is drawn eventually; while it runs the
\* set of collected orderings has at most count elements and never shrinks,
\* and the loop is left exactly when the set has count elements
C23_CountInRange ==
    number_permutations >= 0 /\ number_permutations <= Factorial(NumTeams)

C23_LoopTerminates ==
    /\ []((pc = "sampling" /\ C23_CountInRange) =>
              Cardinality(permutations) <= number_permutations)
    /\ [][(pc = "sampling" /\ pc' = "sampling") =>
              permutations \subseteq permutations']_vars
    /\ [][(pc = "sampling" /\ C23_CountInRange) =>
              (pc' # "sampling" <=>
                   Cardinality(permutations) = number_permutations)]_vars
    /\ (pc = "sampling" /\ C23_CountInRange) ~> (pc # "sampling")

C23_Witness ==
    /\ pc = "sampled" /\ NumTeams = 2 /\ number_permutations = 2
    /\ Cardinality(permutations) = 2 /\ VecLen(runs[1]) = 2

\* C24: in every round the anchor is at the last position of the working
\* list and the list is a permutation of the team identifiers; at the start
\* of round r the team at position i < N-1 is the one that was at position
\* (i - r) mod (N-1) after the initial anchor move, and the list is back in
\* its initial arrangement every N-1 rounds
C24_Initial == VecPush(VecRemove(data.teams, fixed_team), data.teams[fixed_team])

C24_RotationOffset ==
    (pc # "start" /\ NumTeams >= 2 /\ fixed_team < NumTeams) =>
        /\ VecLen(teams) = NumTeams
        /\ VecRange(teams) = VecRange(data.teams)
        /\ teams[NumTeams - 1] = data.teams[fixed_team]
        /\ \A i \in 0..(NumTeams - 2) :
               teams[i] = C24_Initial[(i - round) % (NumTeams - 1)]
        /\ round % (NumTeams - 1) = 0 => teams = C24_Initial

C24_Witness ==
    /\ pc = "rounds" /\ round = 4 /\ NumTeams = 4 /\ fixed_team = 1
    /\ data.teams = (0 :> 2 @@ 1 :> 0 @@ 2 :> 3 @@ 3 :> 1)
    /\ teams = (0 :> 1 @@ 1 :> 2 @@ 2 :> 3 @@ 3 :> 0)

\* C26 as stated: in a constructed schedule for even N >= 2, slot r + (N-1) repeats
\* the pairings of slot r with every home flag inverted (r in 0..N-2), the
\* two meetings of every pair are N-1 slots apart, and every separation
\* constraint contributes N*(N-1) violations when N-1 <= c_min or
\* N-1 > c_max and none otherwise
C26_Contribution(c) ==
    IF NumTeams - 1 <= c.c_min \/ NumTeams - 1 > c.c_max
    THEN NumTeams * (NumTeams - 1)
    ELSE 0

C26_MirroredHalves ==
    (pc \in {"done", "evaluated"} /\ ConstructorAccepts /\ data.slots = NumRounds) =>
        /\ \A r \in 0..(NumTeams - 2) : \A t \in TeamIds :
               /\ Sol[r + NumTeams - 1][t].opponent = Sol[r][t].opponent
               /\ Sol[r + NumTeams - 1][t].home_game = ~Sol[r][t].home_game
        /\ \A a, b \in TeamIds : a # b =>
               \E s \in 0..(NumTeams - 2) : Meetings(a, b) = {s, s + NumTeams - 1}
        /\ pc = "evaluated" =>
               /\ result.status = "ok"
               /\ result.separation_constraints =
                      SumOver(Len(data.separation_constraints), LAMBDA k :
                          C26_Contribution(At(data.separation_constraints, k)))

\* C27: for the same team ordering and the same anchor_index, the schedule
\* built with the other direction has the same opponent and the opposite
\* home flag in every (slot, team) cell
C27_Flipped == generate_florian_solution(data, fixed_team, ~upward)

C27_DirectionFlip ==
    (pc = "done" /\ ConstructorAccepts /\ data.slots = NumRounds) =>
        \A flipped \in {C27_Flipped} :
            /\ flipped.status = "ok"
            /\ DOMAIN flipped.value.solution = DOMAIN Sol
            /\ \A s \in Slots : \A t \in TeamIds :
                   /\ flipped.value.solution[s][t].opponent = Sol[s][t].opponent
                   /\ flipped.value.solution[s][t].home_game = ~Sol[s][t].home_game

C27_Witness ==
    /\ pc = "done" /\ NumTeams = 4 /\ data.slots = 6 /\ fixed_team = 3 /\ upward
    /\ data.teams = (0 :> 1 @@ 1 :> 3 @@ 2 :> 0 @@ 3 :> 2)
    /\ Sol[0][1].home_game /\ ~C27_Flipped.value.solution[0][1].home_game

\* C28: in a constructed schedule the anchor team alternates between home
\* and away from each slot to the next, is away in slot 0 when upward is true
\* and at home in slot 0 when upward is false, and its opponent in every slot
\* is the team at position 0 of the working list of that round
C28_Anchor == data.teams[fixed_team]

C28_AnchorAlternates ==
    /\ []((pc \in {"rounds", "done"} /\ ConstructorAccepts /\ data.slots = NumRounds) =>
              /\ round >= 1 => Sol[0][C28_Anchor].home_game = ~upward
              /\ \A s \in 1..(round - 1) :
                     Sol[s][C28_Anchor].home_game = ~Sol[s - 1][C28_Anchor].home_game)
    /\ [][(pc = "rounds" /\ round' = round + 1 /\ ConstructorAccepts) =>
              solution_matrix'.solution[round][C28_Anchor].opponent = teams[0]]_vars

C28_Witness ==
    /\ pc = "done" /\ NumTeams = 4 /\ data.slots = 6 /\ fixed_team = 0 /\ ~upward
    /\ data.teams = (0 :> 2 @@ 1 :> 3 @@ 2 :> 1 @@ 3 :> 0)
    /\ Sol[0][2].home_game /\ ~Sol[1][2].home_game /\ Sol[4][2].home_game
    /\ Sol[0][2].opponent = 3 /\ Sol[1][2].opponent = 0

\* C29: the per-pair counter of check_constraints is incremented from both
\* teams of a meeting: for a symmetric, fully assigned schedule the counter
\* of a pair is twice the number of slots in which the pair meets, and
\* round_robin_ok is true exactly when no pair meets in more than 2 slots
C29_DoubledCounter ==
    (pc = "evaluated" /\ result.status = "ok") =>
        /\ \A a, b \in TeamIds : a < b =>
               MatchCount(Sol, <<a, b>>, VecLen(Sol), NumTeams) =
                   2 * Cardinality(Meetings(a, b))
        /\ result.round_robin_respect <=>
               \A a, b \in TeamIds : a < b => Cardinality(Meetings(a, b)) <= 2

C29_Witness ==
    /\ pc = "evaluated" /\ result.status = "ok" /\ NumTeams = 4 /\ VecLen(Sol) = 3
    /\ result.round_robin_respect
    /\ Cardinality(Meetings(1, 3)) = 2
    /\ MatchCount(Sol, <<1, 3>>, 3, 4) = 4

\* C30: has_duplicate_solutions returns true exactly when two entries of the
\* list agree in identifier and game matrix; on the list returned by a
\* generate_all_solutions run it returns false, also when two schedules of
\* the run have the same game matrix
C30_FromRun == pc = "checked" /\ progress = VecLen(solutions)

C30_IdentifierAndMatrix ==
    /\ pc = "checked" =>
           (result.has_duplicates <=>
                \E i, j \in DOMAIN solutions :
                    /\ i # j
                    /\ solutions[i].id = solutions[j].id
                    /\ solutions[i].solution = solutions[j].solution)
    /\ C30_FromRun => ~result.has_duplicates

C30_Witness ==
    /\ C30_FromRun /\ NumTeams = 2 /\ VecLen(solutions) = 4
    /\ solutions[1].solution = solutions[2].solution
    /\ ~result.has_duplicates
====
